---- MODULE Spec2Model ----
(***************************************************************************)
(* Streaming chat relay (apps/server chat controller) and the dashboard    *)
(* workflow page that consumes it.                                         *)
(*                                                                         *)
(* Text is a sequence of symbols.  On the upstream wire a symbol is one    *)
(* byte class: "d" ":" spell the five characters of `data:`, "[" "]" the   *)
(* sentinel `[DONE]`, "{" and "}" the JSON text before and after the       *)
(* content string of a chat-completion chunk, "e1" "e2" the two bytes of   *)
(* one two-byte UTF-8 character.                                           *)
(*                                                                         *)
(* RelaySpec is the relay on one request, ClientSpec the page's chat on    *)
(* the relay's frames, DraftSpec the chat together with the edits of the   *)
(* draft panel and the Jira and design-doc requests, ExtractSpec the       *)
(* template extractor on a text of its own, TemplateSpec the extractor and *)
(* the split of a reply into bubble and template on every short text,      *)
(* UpstreamFairSpec the relay's upstream path with its reads settling,     *)
(* WireSpec the page reading what the relay wrote for its request.         *)
(***************************************************************************)
EXTENDS Integers, Sequences, FiniteSets, TLC

\* ------------------------------------------------------------------ bounds
MaxRecords == 3
MaxChunk == 4
MaxSubmits == 2
MaxTypeChanges == 1
MaxCut == 1
MaxEdits == 2
MaxDraftSubmits == 1
MaxProbeLen == 4
MaxTemplateLen == 4
MaxWireSubmits == 1

\* ------------------------------------------------------- string helpers
WS == {" ", "\n"}

Min(a, b) == IF a < b THEN a ELSE b

DropN(s, n) == SubSeq(s, n + 1, Len(s))
TakeN(s, n) == SubSeq(s, 1, n)

StartsWith(s, p) == Len(s) >= Len(p) /\ TakeN(s, Len(p)) = p

RECURSIVE TrimStart(_)
TrimStart(s) == IF s # <<>> /\ Head(s) \in WS THEN TrimStart(Tail(s)) ELSE s

RECURSIVE TrimEnd(_)
TrimEnd(s) ==
  IF s # <<>> /\ s[Len(s)] \in WS THEN TrimEnd(TakeN(s, Len(s) - 1)) ELSE s

Trim(s) == TrimEnd(TrimStart(s))

\* String.prototype.split with a one-symbol separator: k separators give
\* k + 1 pieces, empty pieces included.
RECURSIVE SplitAcc(_, _, _)
SplitAcc(s, sep, cur) ==
  IF s = <<>> THEN <<cur>>
  ELSE IF Head(s) = sep THEN <<cur>> \o SplitAcc(Tail(s), sep, <<>>)
  ELSE SplitAcc(Tail(s), sep, Append(cur, Head(s)))

Split(s, sep) == SplitAcc(s, sep, <<>>)

\* ------------------------------------------------------ request payload
WorkItemTypes == {"story", "feature", "epic", "bug", "issue"}
Roles == {"user", "assistant"}

\* A JSON value is tagged with its JSON type.
Str(v) == [t |-> "string", v |-> v]
Undef == [t |-> "undefined", v |-> ""]

GoodMsg == [role |-> Str("user"), content |-> Str("hi"), timestamp |-> Str("09:00")]
BadRoleMsg == [role |-> Str("system"), content |-> Str("hi"), timestamp |-> Str("09:00")]
NoContentMsg == [role |-> Str("user"), content |-> Undef, timestamp |-> Str("09:00")]

MessageLists == {<<GoodMsg>>, <<GoodMsg, BadRoleMsg>>, <<NoContentMsg>>}

Payloads ==
  [workItemType : {Str(w) : w \in WorkItemTypes} \cup {Str("task"), Undef},
   messages : {[t |-> "array", v |-> l] : l \in MessageLists}
              \cup {[t |-> "undefined", v |-> <<>>], [t |-> "string", v |-> <<>>]}]

\* a schema that forgets to look inside the message list
chatRequestSchemaLoose(body) ==
  /\ body.workItemType.t = "string"
  /\ body.workItemType.v \in WorkItemTypes
  /\ body.messages.t = "array"

\* chatRequestSchema.safeParse(body).success
chatRequestSchema(body) ==
  /\ body.workItemType.t = "string"
  /\ body.workItemType.v \in WorkItemTypes
  /\ body.messages.t = "array"
  /\ \A i \in 1..Len(body.messages.v) :
       LET m == body.messages.v[i]
       IN  /\ m.role.t = "string" /\ m.role.v \in Roles
           /\ m.content.t = "string"
           /\ m.timestamp.t = "string"

\* ------------------------------------------------------------ SSE frames
DeltaFrame(d) == [type |-> "delta", delta |-> d]
DoneFrame == [type |-> "done", delta |-> <<>>]
ErrorFrame == [type |-> "error", delta |-> <<"Invalid chat payload">>]

\* --------------------------------------------------- upstream byte stream
RecordKinds == {"a", "eb", "empty", "bad", "DONE"}

\* choices[0].delta.content of a record, as decoded text
RecordContent(k) ==
  CASE k = "a" -> <<"a">>
    [] k = "eb" -> <<"E", "b">>
    [] OTHER -> <<>>

\* the bytes of one upstream line, without its terminator
RecordBytes(k) ==
  CASE k = "a" -> <<"d", ":", " ", "{", "a", "}">>
    [] k = "eb" -> <<"d", ":", " ", "{", "e1", "e2", "b", "}">>
    [] k = "empty" -> <<"d", ":", "{", "}">>
    [] k = "bad" -> <<"d", ":", " ", "{", "a">>
    [] k = "DONE" -> <<"d", ":", " ", "[", "]">>

RECURSIVE UpstreamBytes(_, _)
UpstreamBytes(recs, lastNewline) ==
  IF recs = <<>> THEN <<>>
  ELSE RecordBytes(Head(recs))
       \o (IF Len(recs) = 1 /\ ~lastNewline THEN <<>> ELSE <<"\n", "\n">>)
       \o UpstreamBytes(Tail(recs), lastNewline)

RecordLists == UNION {[1..n -> RecordKinds] : n \in 0..MaxRecords}

\* TextDecoder.decode(value, {stream: true}): a lead byte at the end of
\* the chunk is kept for the next call; a malformed sequence decodes to
\* the replacement character.
RECURSIVE DecodeBytes(_)
DecodeBytes(bs) ==
  IF bs = <<>> THEN [out |-> <<>>, pending |-> <<>>]
  ELSE IF Head(bs) = "e1" THEN
         IF Len(bs) = 1 THEN [out |-> <<>>, pending |-> <<"e1">>]
         ELSE IF bs[2] = "e2"
           THEN LET r == DecodeBytes(DropN(bs, 2))
                IN  [out |-> <<"E">> \o r.out, pending |-> r.pending]
           ELSE LET r == DecodeBytes(Tail(bs))
                IN  [out |-> <<"?">> \o r.out, pending |-> r.pending]
  ELSE LET r == DecodeBytes(Tail(bs))
       IN  [out |-> <<(IF Head(bs) = "e2" THEN "?" ELSE Head(bs))>> \o r.out,
            pending |-> r.pending]

\* TextDecoder.decode(value) without {stream: true}: every chunk is decoded
\* on its own, and a lead byte at its end is malformed
StreamDecodeEach(pending, chunk) ==
  LET r == DecodeBytes(chunk)
  IN  [out |-> r.out \o (IF r.pending # <<>> THEN <<"?">> ELSE <<>>),
       pending |-> <<>>]

StreamDecode(pending, chunk) == DecodeBytes(pending \o chunk)

\* JSON.parse(data) followed by json.choices?.[0]?.delta?.content
ContentChars == {"a", "b", "E", "?", " "}

\* a parser that takes what it can read of a record that is cut short
ParseChunkJSONLenient(data) ==
  IF Len(data) >= 2 /\ data[1] = "{"
  THEN [ok |-> TRUE,
        content |-> SelectSeq(Tail(data), LAMBDA c : c \in ContentChars)]
  ELSE [ok |-> FALSE, content |-> <<>>]

ParseChunkJSON(data) ==
  IF /\ Len(data) >= 2
     /\ data[1] = "{"
     /\ data[Len(data)] = "}"
     /\ \A i \in 2..(Len(data) - 1) : data[i] \in ContentChars
  THEN [ok |-> TRUE, content |-> SubSeq(data, 2, Len(data) - 1)]
  ELSE [ok |-> FALSE, content |-> <<>>]

DataPrefix == <<"d", ":">>
DoneSentinel == <<"[", "]">>

\* ---------------------------------------------------------- canned reply
cannedResponses ==
  << <<"Let's", "pin", "down", "success", "metrics", "before", "we", "push", "to", "Jira.">>,
     <<"I'd", "add", "a", "rollout", "guardrail.", "Want", "me", "to", "suggest", "one?">>,
     <<"Sounds", "good.", "Need", "any", "help", "writing", "acceptance", "tests?">>,
     <<"Consider", "dependencies", "with", "analytics", "or", "billing", "here.">>,
     <<"Happy", "to", "summarize", "this", "into", "a", "Jira-ready", "payload.">> >>

RECURSIVE JoinSpace(_)
JoinSpace(ws) ==
  IF ws = <<>> THEN <<>>
  ELSE IF Len(ws) = 1 THEN <<ws[1]>>
  ELSE <<ws[1], " ">> \o JoinSpace(Tail(ws))

toUpperCase(w) ==
  CASE w = "story" -> "[STORY]"
    [] w = "feature" -> "[FEATURE]"
    [] w = "epic" -> "[EPIC]"
    [] w = "bug" -> "[BUG]"
    [] w = "issue" -> "[ISSUE]"

\* ChatService.generateReply(payload).content with Math.random() picking r;
\* the first symbol is the bracketed upper-case type
generateReply(workItemType, r) ==
  <<toUpperCase(workItemType), " ">> \o JoinSpace(cannedResponses[r])

\* ---------------------------------------------------- template extractor
\* Assistant text is a sequence of symbols: the markers are one symbol
\* each, "1." and "2." are a run of digits and its dot, "a" and "b" are
\* words, "---" is a dash divider.
TitleMarkers == {"Title:", "title:"}
DescriptionMarkers == {"Description:"}
CriteriaMarkers == {"Acceptance Criteria:"}
StepsMarkers == {"Steps:"}
Numbers == {"1.", "2."}

\* number of whitespace symbols at the front of s
RECURSIVE LeadingWS(_)
LeadingWS(s) ==
  IF s # <<>> /\ Head(s) \in WS THEN 1 + LeadingWS(Tail(s)) ELSE 0

\* the lookahead (?=\s*<marker>) at position e of content
AheadAfterWS(content, e, markers) ==
  \E j \in e..Len(content) :
    /\ content[j] \in markers
    /\ \A m \in e..(j - 1) : content[m] \in WS

\* content.match(/<marker>\s*(.+?)(?=<stop>|$)/is): the capture group of the
\* leftmost match, or no match.  stops are the positions where the
\* lookahead succeeds.
\* \s* is greedy and gives whitespace back only when nothing follows it.
MatchField(content, markers, stops) ==
  LET n == Len(content)
      Starts == {i \in 1..n : content[i] \in markers /\ i < n}
  IN  IF Starts = {} THEN [found |-> FALSE, group |-> <<>>]
      ELSE
        LET i == CHOOSE x \in Starts : \A y \in Starts : x <= y
            k == LeadingWS(DropN(content, i))
            s == IF i + k < n THEN i + k + 1 ELSE n
            e == CHOOSE x \in (s + 1)..(n + 1) :
                   /\ (x = n + 1 \/ x \in stops)
                   /\ \A y \in (s + 1)..(x - 1) : y \notin stops
        IN  [found |-> TRUE, group |-> SubSeq(content, s, e - 1)]

\* text.match(/\d+\.\s*[^\n]+/g): the matches from position p on.  After
\* the number \s* takes as much whitespace as leaves a symbol other than
\* a newline for [^\n]+, which then runs to the end of the line.
RECURSIVE NumberedFrom(_, _)
NumberedFrom(t, p) ==
  LET n == Len(t)
      Q(x) == {q \in (x + 1)..n :
                 /\ t[q] # "\n"
                 /\ \A m \in (x + 1)..(q - 1) : t[m] \in WS}
      Cands == {x \in p..n : t[x] \in Numbers /\ Q(x) # {}}
  IN  IF Cands = {} THEN <<>>
      ELSE
        LET x == CHOOSE c \in Cands : \A d \in Cands : c <= d
            q == CHOOSE c \in Q(x) : \A d \in Q(x) : d <= c
            r == CHOOSE z \in q..n :
                   /\ \A m \in q..z : t[m] # "\n"
                   /\ (z = n \/ t[z + 1] = "\n")
        IN  <<SubSeq(t, x, r)>> \o NumberedFrom(t, r + 1)

Numbered(t) == NumberedFrom(t, 1)

NoStop == {}

\* lines 178-203 / 1455-1480: the list of the type's marker
ExtractList(content, type) ==
  LET markers == IF type = "story" THEN CriteriaMarkers
                 ELSE IF type = "issue" THEN StepsMarkers
                 ELSE {}
      m == MatchField(content, markers, NoStop)
  IN  IF ~m.found THEN <<>>
      ELSE LET acText == Trim(m.group)
               numbered == Numbered(acText)
           IN  IF Len(numbered) > 0 THEN numbered ELSE <<acText>>

\* a title that falls back on the whole text when there is no marker
ExtractTitleOrText(content) ==
  LET m == MatchField(content, TitleMarkers,
                      {e \in 1..Len(content) :
                         AheadAfterWS(content, e, DescriptionMarkers)})
  IN  IF m.found THEN Trim(m.group) ELSE Trim(content)

\* lines 170-172 / 1447-1449
ExtractTitle(content) ==
  LET m == MatchField(content, TitleMarkers,
                      {e \in 1..Len(content) :
                         AheadAfterWS(content, e, DescriptionMarkers)})
  IN  IF m.found THEN Trim(m.group) ELSE <<>>

\* lines 174-176 / 1451-1453: the lookahead is
\* (?=\s*Acceptance Criteria:|Steps:|$), whitespace only before the first
ExtractDescription(content) ==
  LET m == MatchField(content, DescriptionMarkers,
                      {e \in 1..Len(content) :
                         \/ AheadAfterWS(content, e, CriteriaMarkers)
                         \/ content[e] \in StepsMarkers})
  IN  IF m.found THEN Trim(m.group) ELSE <<>>

Null == <<>>
IsNull(u) == DOMAIN u = {}

\* page.tsx lines 164-209: all three fields or nothing
parseStructuredResponsePage(content, type) ==
  LET title == ExtractTitle(content)
      description == ExtractDescription(content)
      list == ExtractList(content, type)
  IN  IF title # <<>> /\ description # <<>> /\ Len(list) > 0
      THEN [title |-> title, description |-> description, acceptance |-> list]
      ELSE Null

\* part_002 lines 1441-1492: every field that was found
parseStructuredResponseBuffered(content, type) ==
  LET title == ExtractTitle(content)
      description == ExtractDescription(content)
      list == ExtractList(content, type)
  IN  (IF title # <<>> THEN [title |-> title] ELSE <<>>)
      @@ (IF description # <<>> THEN [description |-> description] ELSE <<>>)
      @@ (IF Len(list) > 0 THEN [acceptance |-> list] ELSE <<>>)

parseStructuredResponse(v, content, type) ==
  IF v = "page" THEN parseStructuredResponsePage(content, type)
  ELSE parseStructuredResponseBuffered(content, type)

\* part_002 line 1605:
\* /Title:\s*.+\nDescription:\s*.+((Acceptance Criteria:)|(Steps:))\s*\d+\.\s*/is
isFullTemplate(content) ==
  LET n == Len(content) IN
  \E i \in 1..n :
    /\ content[i] \in TitleMarkers
    /\ \E j \in (i + 2)..(n - 1) :
         /\ content[j] = "\n"
         /\ content[j + 1] \in DescriptionMarkers
         /\ \E k \in (j + 3)..n :
              /\ content[k] \in CriteriaMarkers \cup StepsMarkers
              /\ \E l \in (k + 1)..n :
                   /\ content[l] \in Numbers
                   /\ \A m \in (k + 1)..(l - 1) : content[m] \in WS

\* ------------------------------------------------------------------ state
VARIABLES
  rpc,            \* position of the /api/chat/stream handler
  body,           \* request.body
  apiKey,         \* process.env.OPENAI_API_KEY is set
  frames,         \* frames passed to reply.raw.write, in call order
  endCalls,       \* number of reply.raw.end() calls
  streamClosed,   \* the pump's streamClosed flag
  fetched,        \* fetch() to the upstream was issued
  upRecords,      \* the records the upstream body is made of
  upstream,       \* bytes of the upstream body not yet read
  buffer,         \* the pump's line buffer
  pending,        \* bytes held by the pump's TextDecoder
  text,           \* canned.content
  words,          \* text.split(" ")
  index,          \* next word of the fallback
  interval,       \* the fallback interval is armed
  timeout,        \* the 50 ms end() timer is armed
  clientClosed,   \* the inbound connection's close event has fired
  rejected,       \* the handler or pump promise rejected
  outcome,        \* how the upstream call came out
  closedAfterDone, \* the close event fired after `done` had been written
  closedAt        \* where the handler was when the close event fired

relayVars ==
  <<rpc, body, apiKey, frames, endCalls, streamClosed, fetched, upRecords,
    upstream, buffer, pending, text, words, index, interval, timeout,
    clientClosed, rejected, outcome, closedAfterDone, closedAt>>

VARIABLES
  variant,        \* "page": apps/dashboard workflow page (live bubble);
                  \* "buffered": the page of part_002 (reply shown at the end)
  messages,       \* the messages state
  messagesRef,    \* messagesRef.current
  workItemType,   \* the workItemType state
  workItem,       \* the workItem state (the draft)
  isWorkItemReady, \* the readiness flag
  isReplying,     \* the replying indicator
  nextId,         \* the next crypto.randomUUID()
  stream,         \* the request in flight: what sendMessage closed over and
                  \* the locals of its then-callback
  completion,     \* what the last finally block saw and did
  typeChanges,    \* number of clicks on a type button so far
  sharesCatalog   \* workItem.acceptance is the catalog entry's own array

clientVars ==
  <<variant, messages, messagesRef, workItemType, workItem, isWorkItemReady,
    isReplying, nextId, stream, completion, typeChanges, sharesCatalog>>

VARIABLES
  replies,        \* the texts the assistant may answer with in this run
  submitBound,    \* number of messages the user sends in this run at most
  edits,          \* number of actions on the draft panel so far
  probe,          \* an input of the template extractor and what it returned
  cuts            \* the decoders a read has left in the middle of a character

envVars == <<replies, submitBound, edits, probe, cuts>>

VARIABLES
  jiraState,      \* jiraState.status
  hldState        \* hldState.status

handoffVars == <<jiraState, hldState>>

vars == <<relayVars, clientVars, envVars, handoffVars>>

\* ------------------------------------------------- the response (reply.raw)
\* r = [frames, streamClosed, endCalls]
safeWriteUnguarded(r, chunk) == [r EXCEPT !.frames = Append(@, chunk)]

safeWrite(r, chunk) ==
  IF ~r.streamClosed THEN [r EXCEPT !.frames = Append(@, chunk)] ELSE r

endStreamUnguarded(r) ==
  [r EXCEPT !.streamClosed = TRUE, !.endCalls = @ + 1]

endStream(r) ==
  IF ~r.streamClosed
  THEN [r EXCEPT !.streamClosed = TRUE, !.endCalls = @ + 1]
  ELSE r

\* a pump that forgets the partial line between reads
PopLastDropped(lines) == <<>>

\* lines.pop() || ""
PopLast(lines) == lines[Len(lines)]

\* the for-loop of pump over the complete lines of one chunk; returned is
\* TRUE when the loop left pump through the [DONE] branch
RECURSIVE ProcessLines(_, _)
ProcessLines(lines, r) ==
  IF lines = <<>> THEN [r |-> r, returned |-> FALSE]
  ELSE
    LET trimmed == Trim(Head(lines)) IN
    IF ~StartsWith(trimmed, DataPrefix) THEN ProcessLines(Tail(lines), r)
    ELSE
      LET data == Trim(DropN(trimmed, Len(DataPrefix))) IN
      IF data = DoneSentinel
      THEN [r |-> endStream(safeWrite(r, DoneFrame)), returned |-> TRUE]
      ELSE
        LET json == ParseChunkJSON(data) IN
        IF json.ok /\ json.content # <<>>
        THEN ProcessLines(Tail(lines), safeWrite(r, DeltaFrame(json.content)))
        ELSE ProcessLines(Tail(lines), r)

\* a finally block that writes done and leaves the response open
PumpFinallyWriteOnly(r) == safeWrite(r, DoneFrame)

\* the finally block of pump
PumpFinally(r) == endStream(safeWrite(r, DoneFrame))

Resp == [frames |-> frames, streamClosed |-> streamClosed, endCalls |-> endCalls]

SetResp(r) ==
  /\ frames' = r.frames
  /\ streamClosed' = r.streamClosed
  /\ endCalls' = r.endCalls

\* a tick that writes the word without the space before it
FallbackDeltaBare(ws, i) == ws[i + 1]

\* the delta of one interval tick
FallbackDelta(ws, i) == (IF i = 0 THEN <<>> ELSE <<" ">>) \o ws[i + 1]

\* ---------------------------------------------------------------- actions
\* lines 31-44: the payload does not validate
ValidationFail ==
  /\ rpc = "start"
  /\ ~chatRequestSchema(body)
  /\ frames' = frames \o <<ErrorFrame, DoneFrame>>
  /\ endCalls' = endCalls + 1
  /\ rpc' = "finished"
  /\ UNCHANGED <<body, apiKey, streamClosed, fetched, upRecords, upstream,
                 buffer, pending, text, words, index, interval, timeout,
                 clientClosed, rejected, outcome, closedAfterDone, closedAt>>
  /\ UNCHANGED clientVars
  /\ UNCHANGED envVars
  /\ UNCHANGED handoffVars

\* lines 45-92: the payload validates and streamOpenAIChat is awaited
ValidationPass ==
  /\ rpc = "start"
  /\ chatRequestSchema(body)
  /\ rpc' = "opening"
  /\ UNCHANGED <<body, apiKey, frames, endCalls, streamClosed, fetched,
                 upRecords, upstream, buffer, pending, text, words, index,
                 interval, timeout, clientClosed, rejected, outcome, closedAfterDone, closedAt>>
  /\ UNCHANGED clientVars
  /\ UNCHANGED envVars
  /\ UNCHANGED handoffVars

\* lines 161-176: generateReply, split, setInterval, on("close")
StartFallback ==
  \E r \in 1..Len(cannedResponses) :
    /\ text' = generateReply(body.workItemType.v, r)
    /\ words' = Split(text', " ")
    /\ index' = 0
    /\ interval' = TRUE
    /\ rpc' = "fallback"

\* openai.ts line 13: no key, null is returned without any fetch
OpenNoKey ==
  /\ rpc = "opening"
  /\ ~apiKey
  /\ StartFallback
  /\ outcome' = "nokey"
  /\ UNCHANGED <<body, apiKey, frames, endCalls, streamClosed, fetched,
                 upRecords, upstream, buffer, pending, timeout, clientClosed,
                 rejected, closedAfterDone, closedAt>>
  /\ UNCHANGED clientVars
  /\ UNCHANGED envVars
  /\ UNCHANGED handoffVars

\* openai.ts lines 31-34 (non-2xx gives null) and controller line 99
\* (a response without body)
OpenUnavailable ==
  /\ rpc = "opening"
  /\ apiKey
  /\ fetched' = TRUE
  /\ StartFallback
  /\ \E o \in {"non2xx", "nobody"} : outcome' = o
  /\ UNCHANGED <<body, apiKey, frames, endCalls, streamClosed, upRecords,
                 upstream, buffer, pending, timeout, clientClosed, rejected, closedAfterDone, closedAt>>
  /\ UNCHANGED clientVars
  /\ UNCHANGED envVars
  /\ UNCHANGED handoffVars

\* openai.ts line 17: fetch rejects (connection refused); nothing catches it
\* in streamOpenAIChat or in the handler
OpenThrows ==
  /\ rpc = "opening"
  /\ apiKey
  /\ fetched' = TRUE
  /\ rejected' = TRUE
  /\ rpc' = "failed"
  /\ outcome' = "refused"
  /\ UNCHANGED <<body, apiKey, frames, endCalls, streamClosed, upRecords,
                 upstream, buffer, pending, text, words, index, interval,
                 timeout, clientClosed, closedAfterDone, closedAt>>
  /\ UNCHANGED clientVars
  /\ UNCHANGED envVars
  /\ UNCHANGED handoffVars

\* lines 99-103, 157: a 2xx response with a body; pump starts
OpenOk ==
  /\ rpc = "opening"
  /\ apiKey
  /\ fetched' = TRUE
  /\ \E recs \in RecordLists, lastNewline \in BOOLEAN :
       /\ upRecords' = recs
       /\ upstream' = UpstreamBytes(recs, lastNewline)
  /\ buffer' = <<>>
  /\ pending' = <<>>
  /\ streamClosed' = FALSE
  /\ rpc' = "pump"
  /\ outcome' = "ok"
  /\ UNCHANGED <<body, apiKey, frames, endCalls, text, words, index, interval,
                 timeout, clientClosed, rejected, closedAfterDone, closedAt>>
  /\ UNCHANGED clientVars
  /\ UNCHANGED envVars
  /\ UNCHANGED handoffVars

\* lines 119-151: one read() that delivers a chunk
PumpRead ==
  /\ rpc = "pump"
  /\ upstream # <<>>
  /\ \E n \in 1..Min(MaxChunk, Len(upstream)) :
       \E dec \in {StreamDecode(pending, TakeN(upstream, n))} :
       \E lines \in {Split(buffer \o dec.out, "\n")} :
       \E res \in {ProcessLines(TakeN(lines, Len(lines) - 1), Resp)} :
       \E r \in {IF res.returned THEN PumpFinally(res.r) ELSE res.r} :
           /\ upstream' = DropN(upstream, n)
           /\ pending' = dec.pending
           /\ cuts' = IF dec.pending # <<>> THEN cuts \cup {"relay"} ELSE cuts
           /\ buffer' = PopLast(lines)
           /\ SetResp(r)
           /\ rpc' = IF res.returned THEN "finished" ELSE "pump"
  /\ UNCHANGED <<body, apiKey, fetched, upRecords, text, words, index,
                 interval, timeout, clientClosed, rejected, outcome, closedAfterDone, closedAt>>
  /\ UNCHANGED clientVars
  /\ UNCHANGED <<replies, submitBound, edits, probe>>
  /\ UNCHANGED handoffVars

\* lines 119-120, 152-155: read() reports done
PumpEof ==
  /\ rpc = "pump"
  /\ upstream = <<>>
  /\ SetResp(PumpFinally(Resp))
  /\ rpc' = "finished"
  /\ UNCHANGED <<body, apiKey, fetched, upRecords, upstream, buffer, pending,
                 text, words, index, interval, timeout, clientClosed, rejected,
                 outcome, closedAfterDone, closedAt>>
  /\ UNCHANGED clientVars
  /\ UNCHANGED envVars
  /\ UNCHANGED handoffVars

\* lines 119, 152-155: read() rejects; finally runs, then pump() rejects
\* and line 157 does not await or catch it
PumpReadError ==
  /\ rpc = "pump"
  /\ SetResp(PumpFinally(Resp))
  /\ rejected' = TRUE
  /\ rpc' = "finished"
  /\ UNCHANGED <<body, apiKey, fetched, upRecords, upstream, buffer, pending,
                 text, words, index, interval, timeout, clientClosed, outcome, closedAfterDone, closedAt>>
  /\ UNCHANGED clientVars
  /\ UNCHANGED envVars
  /\ UNCHANGED handoffVars

\* lines 166-175: one firing of the 40 ms interval
IntervalTick ==
  /\ rpc = "fallback"
  /\ interval
  /\ IF index >= Len(words)
     THEN /\ frames' = Append(frames, DoneFrame)
          /\ interval' = FALSE
          /\ timeout' = TRUE
          /\ index' = index
     ELSE /\ frames' = Append(frames, DeltaFrame(FallbackDelta(words, index)))
          /\ index' = index + 1
          /\ UNCHANGED <<interval, timeout>>
  /\ UNCHANGED <<rpc, body, apiKey, endCalls, streamClosed, fetched,
                 upRecords, upstream, buffer, pending, text, words,
                 clientClosed, rejected, outcome, closedAfterDone, closedAt>>
  /\ UNCHANGED clientVars
  /\ UNCHANGED envVars
  /\ UNCHANGED handoffVars

\* line 170: the 50 ms timer fires
TimeoutEnd ==
  /\ rpc = "fallback"
  /\ timeout
  /\ timeout' = FALSE
  /\ endCalls' = endCalls + 1
  /\ rpc' = "finished"
  /\ UNCHANGED <<body, apiKey, frames, streamClosed, fetched, upRecords,
                 upstream, buffer, pending, text, words, index, interval,
                 clientClosed, rejected, outcome, closedAfterDone, closedAt>>
  /\ UNCHANGED clientVars
  /\ UNCHANGED envVars
  /\ UNCHANGED handoffVars

\* the client goes away: request.raw emits close; line 176 is the only
\* listener and exists only once the fallback interval is armed
ClientClose ==
  /\ ~clientClosed
  /\ clientClosed' = TRUE
  /\ interval' = FALSE
  /\ closedAfterDone' = (\E i \in 1..Len(frames) : frames[i] = DoneFrame)
  /\ closedAt' = rpc
  /\ UNCHANGED <<rpc, body, apiKey, frames, endCalls, streamClosed, fetched,
                 upRecords, upstream, buffer, pending, text, words, index,
                 timeout, rejected, outcome>>
  /\ UNCHANGED clientVars
  /\ UNCHANGED envVars
  /\ UNCHANGED handoffVars

\* ==================================================== the workflow page
\* --------------------------------------------------- the response on the wire
\* JSON.stringify of a delta, then UTF-8: a newline is written as the
\* escape \n and the accented character takes two bytes
RECURSIVE EncodeText(_)
EncodeText(t) ==
  IF t = <<>> THEN <<>>
  ELSE (CASE Head(t) = "\n" -> <<"\\n">>
          [] Head(t) = "E" -> <<"e1", "e2">>
          [] OTHER -> <<Head(t)>>)
       \o EncodeText(Tail(t))

\* controller.ts lines 35-41, 130, 144, 153, 168, 174: one frame as written
FrameBytes(f) ==
  <<"data:", " ", "{", f.type>> \o EncodeText(f.delta) \o <<"}", "\n", "\n">>

RECURSIVE BodyBytes(_)
BodyBytes(fs) ==
  IF fs = <<>> THEN <<>> ELSE FrameBytes(Head(fs)) \o BodyBytes(Tail(fs))

\* buffer.split("\n\n")
RECURSIVE SplitBlankAcc(_, _)
SplitBlankAcc(s, cur) ==
  IF s = <<>> THEN <<cur>>
  ELSE IF Len(s) >= 2 /\ s[1] = "\n" /\ s[2] = "\n"
    THEN <<cur>> \o SplitBlankAcc(DropN(s, 2), <<>>)
    ELSE SplitBlankAcc(Tail(s), Append(cur, Head(s)))

SplitBlank(s) == SplitBlankAcc(s, <<>>)

RECURSIVE Unescape(_)
Unescape(t) ==
  IF t = <<>> THEN <<>>
  ELSE <<(IF Head(t) = "\\n" THEN "\n" ELSE Head(t))>> \o Unescape(Tail(t))

\* JSON.parse(payload) as the page uses it
ParseEvent(payload) ==
  IF /\ Len(payload) >= 3
     /\ payload[1] = "{"
     /\ payload[Len(payload)] = "}"
     /\ payload[2] \in {"delta", "done", "error"}
     /\ \A i \in 3..(Len(payload) - 1) :
          payload[i] \notin {"{", "}", "\n", "delta", "done", "error"}
  THEN [ok |-> TRUE, type |-> payload[2],
        delta |-> Unescape(SubSeq(payload, 3, Len(payload) - 1))]
  ELSE [ok |-> FALSE, type |-> "", delta |-> <<>>]

\* the for-loop over the complete records of one chunk: the text of the
\* delta events, in order
RECURSIVE ProcessParts(_)
ProcessParts(parts) ==
  IF parts = <<>> THEN <<>>
  ELSE
    LET part == Head(parts) IN
    IF part = <<>> \/ Head(part) # "data:" THEN ProcessParts(Tail(parts))
    ELSE
      LET evt == ParseEvent(Trim(Tail(part))) IN
      (IF evt.ok /\ evt.type = "delta" THEN evt.delta ELSE <<>>)
      \o ProcessParts(Tail(parts))

\* part_002 line 1559: index of the leftmost match of
\* /(-{2,}\s*\*{0,2}|[\n]\s*)(Title:|Description:|Acceptance Criteria:|Steps:)/
\* or 0; the markers are matched in this spelling only
TemplateMarkers == {"Title:", "Description:", "Acceptance Criteria:", "Steps:"}

templateMatch(content) ==
  LET n == Len(content)
      MarkerAfterWS(p) ==
        \E j \in (p + 1)..n :
          /\ content[j] \in TemplateMarkers
          /\ \A m \in (p + 1)..(j - 1) : content[m] \in WS
      MarkerAfterDashes(p) ==
        \E j \in (p + 1)..n :
          /\ content[j] \in TemplateMarkers
          /\ \E d \in p..(j - 1) : \E q \in d..(j - 1) :
               /\ \A m \in p..d : content[m] = "---"
               /\ \A m \in (d + 1)..q : content[m] \in WS
               /\ q + 1 = j \/ (q + 2 = j /\ content[q + 1] = "**")
      Hits == {p \in 1..n :
                 \/ content[p] = "\n" /\ MarkerAfterWS(p)
                 \/ content[p] = "---" /\ MarkerAfterDashes(p)}
  IN  IF Hits = {} THEN 0 ELSE CHOOSE p \in Hits : \A q \in Hits : p <= q

\* part_002 lines 1560-1565
chatResponse(content) ==
  IF templateMatch(content) # 0
  THEN Trim(TakeN(content, templateMatch(content) - 1))
  ELSE content

\* --------------------------------------------------------- what is typed
\* and what the assistant answers
Drafts == {<<"hi">>, <<" ">>}

FullTemplate(listMarker) ==
  <<"Title:", " ", "a", "\n", "Description:", " ", "b", "\n", listMarker,
    "\n", "1.", " ", "a">>

ReplyTexts ==
  { <<"a">>,
    <<"Title:", " ", "a">>,
    FullTemplate("Acceptance Criteria:"),
    FullTemplate("Steps:"),
    <<"Title:", " ", "a", " ", "Description:", " ", "b", " ",
      "Acceptance Criteria:", " ", "1.", " ", "a">>,
    <<"Title:", " ", "a", "\n", "Description:", " ", "b", "\n",
      "Acceptance Criteria:", " ", "a">>,
    <<"E", "\n", "Title:", " ", "b">> }

\* the deltas a text arrives in: whole, or cut in two after its first
\* symbols
DeltaSplits(t) ==
  {<<t>>} \cup {<<TakeN(t, k), DropN(t, k)>> :
                  k \in 1..Min(MaxCut, Len(t) - 1)}

RECURSIVE DeltaFrames(_)
DeltaFrames(ds) ==
  IF ds = <<>> THEN <<>> ELSE <<DeltaFrame(Head(ds))>> \o DeltaFrames(Tail(ds))

\* ------------------------------------------------------- the page's state
Variants == {"page", "buffered"}

\* workItemTemplates: the text of a catalog entry is one symbol per field;
\* labels stands for label, titleLabel, descriptionLabel and listLabel
workItemTemplates(type) ==
  [labels |-> type,
   title |-> <<"title of " \o type>>,
   description |-> <<"description of " \o type>>,
   acceptance |-> << <<"first of " \o type>>, <<"second of " \o type>>,
                     <<"third of " \o type>> >>]

\* initialMessages; part_002 has the first one only
initialMessages(v) ==
  IF v = "page"
  THEN << [id |-> 1, role |-> "assistant", content |-> <<"Welcome!">>],
          [id |-> 2, role |-> "user", content |-> <<"Need a workflow">>],
          [id |-> 3, role |-> "assistant", content |-> <<"Great.">>] >>
  ELSE << [id |-> 1, role |-> "assistant", content |-> <<"Welcome!">>] >>

Apology == <<"Something went wrong while replying. Try again in a few seconds.">>

NoStream ==
  [phase |-> "idle", type |-> "story", assistantId |-> 0,
   assistantContent |-> <<>>, body |-> <<>>, buffer |-> <<>>,
   pending |-> <<>>, emitted |-> <<>>]

NoCompletion ==
  [n |-> 0, failed |-> FALSE, type |-> "story", content |-> <<>>,
   hadText |-> FALSE, seen |-> <<>>, parsed |-> Null, ready |-> FALSE,
   before |-> workItemTemplates("story"), emitted |-> <<>>]

\* the page as mounted
PageInit(v) ==
  /\ variant = v
  /\ messages = initialMessages(v)
  /\ messagesRef = initialMessages(v)
  /\ workItemType = "story"
  /\ workItem = workItemTemplates("story")
  /\ isWorkItemReady = FALSE
  /\ isReplying = FALSE
  /\ nextId = Len(initialMessages(v)) + 1
  /\ stream = NoStream
  /\ completion = NoCompletion
  /\ typeChanges = 0
  /\ sharesCatalog = FALSE
  /\ jiraState = "idle"
  /\ hldState = "idle"

NoProbe == [content |-> <<>>, type |-> "story", v |-> "page", applied |-> FALSE,
            result |-> Null, list |-> <<>>, split |-> FALSE,
            bubble |-> <<>>]

\* nobody at the page
ClientIdle ==
  /\ PageInit("page")
  /\ replies = {}
  /\ submitBound = 0
  /\ edits = 0
  /\ cuts = {}
  /\ probe = NoProbe

\* an update that shows each delta as a bubble of its own
AppendContentAsMessage(ms, id, delta) ==
  Append(ms, [id |-> id, role |-> "assistant", content |-> delta])

\* an update that puts the delta in front of what the bubble holds
AppendContentFront(ms, id, delta) ==
  [i \in 1..Len(ms) |->
     IF ms[i].id = id THEN [ms[i] EXCEPT !.content = delta \o @] ELSE ms[i]]

\* setMessages(prev => prev.map(m => m.id === id
\*   ? {...m, content: (m.content || "") + delta} : m))
AppendContent(ms, id, delta) ==
  [i \in 1..Len(ms) |->
     IF ms[i].id = id THEN [ms[i] EXCEPT !.content = @ \o delta] ELSE ms[i]]

\* a catch block that keeps what the bubble already shows
SetContentIfBlank(ms, id, content) ==
  [i \in 1..Len(ms) |->
     IF ms[i].id = id /\ ms[i].content = <<>>
     THEN [ms[i] EXCEPT !.content = content] ELSE ms[i]]

\* setMessages(prev => prev.map(m => m.id === id ? {...m, content} : m))
SetContent(ms, id, content) ==
  [i \in 1..Len(ms) |->
     IF ms[i].id = id THEN [ms[i] EXCEPT !.content = content] ELSE ms[i]]

\* the content of the bubble with this id
ContentOf(ms, id) ==
  LET I == {i \in 1..Len(ms) : ms[i].id = id}
  IN  IF I = {} THEN <<>> ELSE ms[CHOOSE i \in I : TRUE].content

\* a merge that adds the extracted items to the list it finds
MergeParsedAppending(prev, parsed) ==
  IF "acceptance" \in DOMAIN parsed
  THEN [(parsed @@ prev) EXCEPT !.acceptance = prev.acceptance \o @]
  ELSE parsed @@ prev

\* what a list assigned from an absent property stands as: the one text
\* that no reply, edit or catalog entry holds
UndefinedList == << <<"undefined">> >>

\* a merge that takes the list from the update whether it has one or not:
\* ({...prev, ...parsed, acceptance: parsed.acceptance})
MergeParsedEvery(prev, parsed) ==
  [(parsed @@ prev) EXCEPT
     !.acceptance = IF "acceptance" \in DOMAIN parsed THEN parsed.acceptance
                    ELSE UndefinedList]

\* setWorkItem(prev => ({...prev, ...parsed}))
MergeParsed(prev, parsed) == parsed @@ prev

\* the finally block of sendMessage.  acc is the text the stream delivered,
\* failed tells whether catch ran before.  The page reads the last entry of
\* messagesRef.current; part_002 reads its assistantContent buffer.
Finally(acc, failed) ==
  LET last == messagesRef[Len(messagesRef)]
      hadText == variant = "buffered" \/ last.role = "assistant"
      seen == IF variant = "buffered" THEN acc
              ELSE IF hadText THEN last.content ELSE <<>>
      Parsed == IF hadText
                THEN parseStructuredResponse(variant, seen, stream.type)
                ELSE Null
  IN  \E parsed \in {Parsed} :
      \E ready \in {~IsNull(parsed)
                       /\ (variant = "buffered" => isFullTemplate(seen))} :
      /\ isReplying' = FALSE
      /\ workItem' = IF IsNull(parsed) THEN workItem
                     ELSE MergeParsed(workItem, parsed)
      /\ isWorkItemReady' = IF ready THEN TRUE ELSE isWorkItemReady
      /\ completion' = [n |-> completion.n + 1, failed |-> failed,
                        type |-> stream.type, content |-> acc,
                        hadText |-> hadText, seen |-> seen,
                        parsed |-> parsed, ready |-> ready,
                        before |-> workItem,
                        emitted |-> IF failed THEN <<>> ELSE stream.emitted]
      /\ sharesCatalog' = IF "acceptance" \in DOMAIN parsed THEN FALSE
                           ELSE sharesCatalog
      /\ stream' = NoStream

\* ---------------------------------------------------------------- actions
\* a form whose onSubmit calls sendMessage whatever isReplying is
SubmitWhileReplying ==
  /\ nextId < Len(initialMessages(variant)) + 1 + 2 * submitBound
  /\ \E draft \in Drafts :
       /\ Trim(draft) # <<>>
       /\ LET newMessage == [id |-> nextId, role |-> "user",
                             content |-> Trim(draft)]
              placeholder == [id |-> nextId + 1, role |-> "assistant",
                              content |-> <<>>]
          IN  /\ messages' = IF variant = "page"
                             THEN messages \o <<newMessage, placeholder>>
                             ELSE Append(messages, newMessage)
              /\ stream' = [NoStream EXCEPT !.phase = "fetching",
                                            !.type = workItemType,
                                            !.assistantId = nextId + 1]
  /\ messagesRef' = messages'
  /\ isReplying' = TRUE
  /\ nextId' = nextId + 2
  /\ UNCHANGED <<variant, workItemType, workItem, isWorkItemReady, completion, typeChanges,
                 sharesCatalog>>
  /\ UNCHANGED relayVars
  /\ UNCHANGED envVars
  /\ UNCHANGED handoffVars

\* the form's onSubmit and sendMessage up to the fetch call; the render of
\* a submit event and its effects are flushed before the next event
Submit ==
  /\ ~isReplying
  /\ nextId < Len(initialMessages(variant)) + 1 + 2 * submitBound
  /\ \E draft \in Drafts :
       /\ Trim(draft) # <<>>
       /\ LET newMessage == [id |-> nextId, role |-> "user",
                             content |-> Trim(draft)]
              placeholder == [id |-> nextId + 1, role |-> "assistant",
                              content |-> <<>>]
          IN  /\ messages' = IF variant = "page"
                             THEN messages \o <<newMessage, placeholder>>
                             ELSE Append(messages, newMessage)
              /\ stream' = [NoStream EXCEPT !.phase = "fetching",
                                            !.type = workItemType,
                                            !.assistantId = nextId + 1]
  /\ messagesRef' = messages'
  /\ isReplying' = TRUE
  /\ nextId' = nextId + 2
  /\ UNCHANGED <<variant, workItemType, workItem, isWorkItemReady, completion, typeChanges,
                 sharesCatalog>>
  /\ UNCHANGED relayVars
  /\ UNCHANGED envVars
  /\ UNCHANGED handoffVars

\* fetch resolves with a body: the frames of an assistant text
FetchOk ==
  /\ stream.phase = "fetching"
  /\ \E t \in replies : \E ds \in DeltaSplits(t) :
       stream' = [stream EXCEPT
                    !.phase = "reading",
                    !.emitted = t,
                    !.body = BodyBytes(DeltaFrames(ds) \o <<DoneFrame>>)]
  /\ UNCHANGED <<variant, messages, messagesRef, workItemType, workItem,
                 isWorkItemReady, isReplying, nextId, completion, typeChanges,
                 sharesCatalog>>
  /\ UNCHANGED relayVars
  /\ UNCHANGED envVars
  /\ UNCHANGED handoffVars

\* fetch rejects or the response has no body: catch, then finally
FetchFail ==
  /\ stream.phase = "fetching"
  /\ messages' = IF variant = "page"
                 THEN SetContent(messages, stream.assistantId, Apology)
                 ELSE Append(messages, [id |-> stream.assistantId,
                                        role |-> "assistant",
                                        content |-> Apology])
  /\ Finally(<<>>, TRUE)
  /\ UNCHANGED <<variant, messagesRef, workItemType, nextId, typeChanges>>
  /\ UNCHANGED relayVars
  /\ UNCHANGED envVars
  /\ UNCHANGED handoffVars

\* one reader.read() that delivers a chunk, and the loop over its records
Read ==
  /\ stream.phase = "reading"
  /\ stream.body # <<>>
  /\ \E n \in 1..Min(MaxChunk, Len(stream.body)) :
       \E dec \in {StreamDecode(stream.pending, TakeN(stream.body, n))} :
       \E parts \in {SplitBlank(stream.buffer \o dec.out)} :
       \E delta \in {ProcessParts(TakeN(parts, Len(parts) - 1))} :
           /\ cuts' = IF dec.pending # <<>> THEN cuts \cup {"page"} ELSE cuts
           /\ stream' = [stream EXCEPT
                           !.body = DropN(stream.body, n),
                           !.pending = dec.pending,
                           !.buffer = PopLast(parts),
                           !.assistantContent =
                             IF variant = "buffered" THEN @ \o delta ELSE @]
           /\ messages' = IF variant = "page"
                          THEN AppendContent(messages, stream.assistantId,
                                             delta)
                          ELSE messages
  /\ UNCHANGED <<variant, messagesRef, workItemType, workItem,
                 isWorkItemReady, isReplying, nextId, completion, typeChanges,
                 sharesCatalog>>
  /\ UNCHANGED relayVars
  /\ UNCHANGED <<replies, submitBound, edits, probe>>
  /\ UNCHANGED handoffVars

\* reader.read() rejects: catch, then finally
ReadFail ==
  /\ stream.phase = "reading"
  /\ messages' = IF variant = "page"
                 THEN SetContent(messages, stream.assistantId, Apology)
                 ELSE Append(messages, [id |-> stream.assistantId,
                                        role |-> "assistant",
                                        content |-> Apology])
  /\ Finally(IF variant = "page"
             THEN ContentOf(messages, stream.assistantId)
             ELSE stream.assistantContent, TRUE)
  /\ UNCHANGED <<variant, messagesRef, workItemType, nextId, typeChanges>>
  /\ UNCHANGED relayVars
  /\ UNCHANGED envVars
  /\ UNCHANGED handoffVars

\* reader.read() reports done: the rest of the then-callback, then finally
ReadDone ==
  /\ stream.phase = "reading"
  /\ stream.body = <<>>
  /\ messages' = IF variant = "page" THEN messages
                 ELSE Append(messages,
                             [id |-> stream.assistantId, role |-> "assistant",
                              content |-> chatResponse(stream.assistantContent)])
  /\ Finally(IF variant = "page"
             THEN ContentOf(messages, stream.assistantId)
             ELSE stream.assistantContent, FALSE)
  /\ UNCHANGED <<variant, messagesRef, workItemType, nextId, typeChanges>>
  /\ UNCHANGED relayVars
  /\ UNCHANGED envVars
  /\ UNCHANGED handoffVars

\* a render commits and its effect runs: messagesRef.current = messages
Render ==
  /\ messagesRef # messages
  /\ messagesRef' = messages
  /\ UNCHANGED <<variant, messages, workItemType, workItem, isWorkItemReady,
                 isReplying, nextId, stream, completion, typeChanges,
                 sharesCatalog>>
  /\ UNCHANGED relayVars
  /\ UNCHANGED envVars
  /\ UNCHANGED handoffVars

\* a type switch that hands out the catalog entry's own list
handleTypeChangeAliased ==
  /\ typeChanges < MaxTypeChanges
  /\ typeChanges' = typeChanges + 1
  /\ \E type \in WorkItemTypes :
       /\ workItemType' = type
       /\ workItem' = workItemTemplates(type)
  /\ sharesCatalog' = TRUE
  /\ isWorkItemReady' = FALSE
  /\ UNCHANGED <<variant, messages, messagesRef, isReplying, nextId, stream,
                 completion>>
  /\ UNCHANGED relayVars
  /\ UNCHANGED envVars
  /\ UNCHANGED handoffVars

\* a click on one of the type buttons: the new draft is the catalog entry
\* with a copy of its list
handleTypeChange ==
  /\ typeChanges < MaxTypeChanges
  /\ typeChanges' = typeChanges + 1
  /\ \E type \in WorkItemTypes :
       /\ workItemType' = type
       /\ workItem' = workItemTemplates(type)
  /\ sharesCatalog' = FALSE
  /\ isWorkItemReady' = FALSE
  /\ UNCHANGED <<variant, messages, messagesRef, isReplying, nextId, stream,
                 completion>>
  /\ UNCHANGED relayVars
  /\ UNCHANGED envVars
  /\ UNCHANGED handoffVars

\* ------------------------------------------------ the draft panel's fields
\* what the user types into the title and the description
EditValues == {<<"x">>}

\* what the user makes of one list item: another text, nothing, or a text
\* with an empty line in it
ItemValues == {<<"x">>, <<>>, <<"x", "\n", "\n", "y">>}

\* the title input's onChange
editTitle ==
  /\ edits < MaxEdits
  /\ edits' = edits + 1
  /\ \E value \in EditValues : workItem' = [workItem EXCEPT !.title = value]
  /\ UNCHANGED <<variant, messages, messagesRef, workItemType, isWorkItemReady,
                 isReplying, nextId, stream, completion, typeChanges,
                 sharesCatalog>>
  /\ UNCHANGED relayVars
  /\ UNCHANGED <<replies, submitBound, probe, cuts>>
  /\ UNCHANGED handoffVars

\* the description textarea's onChange
editDescription ==
  /\ edits < MaxEdits
  /\ edits' = edits + 1
  /\ \E value \in EditValues :
       workItem' = [workItem EXCEPT !.description = value]
  /\ UNCHANGED <<variant, messages, messagesRef, workItemType, isWorkItemReady,
                 isReplying, nextId, stream, completion, typeChanges,
                 sharesCatalog>>
  /\ UNCHANGED relayVars
  /\ UNCHANGED <<replies, submitBound, probe, cuts>>
  /\ UNCHANGED handoffVars

\* workItem.acceptance.join("\n\n")
RECURSIVE JoinBlank(_)
JoinBlank(list) ==
  IF list = <<>> THEN <<>>
  ELSE IF Len(list) = 1 THEN list[1]
  ELSE list[1] \o <<"\n", "\n">> \o JoinBlank(Tail(list))

\* value.split("\n\n").filter((line) => line.trim())
SplitItems(value) == SelectSeq(SplitBlank(value), LAMBDA line : Trim(line) # <<>>)

\* the list after the user has made `value` of item `at`: page.tsx has one
\* textarea per item, part_002 one textarea for the joined list
EditedList(v, list, at, value) ==
  LET next == [list EXCEPT ![at] = value]
  IN  IF v = "page" THEN next ELSE SplitItems(JoinBlank(next))

\* the onChange of the list's textarea(s)
editAcceptance ==
  /\ edits < MaxEdits
  /\ edits' = edits + 1
  /\ \E at \in 1..Len(workItem.acceptance) : \E value \in ItemValues :
       workItem' = [workItem EXCEPT
                      !.acceptance = EditedList(variant, @, at, value)]
  /\ sharesCatalog' = FALSE
  /\ UNCHANGED <<variant, messages, messagesRef, workItemType, isWorkItemReady,
                 isReplying, nextId, stream, completion, typeChanges>>
  /\ UNCHANGED relayVars
  /\ UNCHANGED <<replies, submitBound, probe, cuts>>
  /\ UNCHANGED handoffVars

FigmaTitle == <<"Design: file">>
FigmaNarrative == <<"Figma Design: file">>

\* an import that also takes the draft back to not ready
importFromFigmaResetting ==
  /\ variant = "page"
  /\ edits < MaxEdits
  /\ edits' = edits + 1
  /\ workItem' = [workItem EXCEPT !.title = FigmaTitle,
                                  !.description = FigmaNarrative,
                                  !.acceptance = <<>>]
  /\ sharesCatalog' = FALSE
  /\ isWorkItemReady' = FALSE
  /\ UNCHANGED <<variant, messages, messagesRef, workItemType, isReplying,
                 nextId, stream, completion, typeChanges>>
  /\ UNCHANGED relayVars
  /\ UNCHANGED <<replies, submitBound, probe, cuts>>
  /\ UNCHANGED handoffVars

\* importFromFigma, once the file has been fetched; only page.tsx has it
importFromFigma ==
  /\ variant = "page"
  /\ edits < MaxEdits
  /\ edits' = edits + 1
  /\ workItem' = [workItem EXCEPT !.title = FigmaTitle,
                                  !.description = FigmaNarrative,
                                  !.acceptance = <<>>]
  /\ sharesCatalog' = FALSE
  /\ UNCHANGED <<variant, messages, messagesRef, workItemType, isWorkItemReady,
                 isReplying, nextId, stream, completion, typeChanges>>
  /\ UNCHANGED relayVars
  /\ UNCHANGED <<replies, submitBound, probe, cuts>>
  /\ UNCHANGED handoffVars

\* page.tsx lines 326-330: the Jira button is clicked and the draft is posted
createJiraIssue ==
  /\ jiraState # "creating"
  /\ edits < MaxEdits
  /\ edits' = edits + 1
  /\ jiraState' = "creating"
  /\ UNCHANGED hldState
  /\ UNCHANGED clientVars
  /\ UNCHANGED relayVars
  /\ UNCHANGED <<replies, submitBound, probe, cuts>>

\* lines 340-350: the request to /api/jira succeeds or fails
createJiraIssueSettles ==
  /\ jiraState = "creating"
  /\ jiraState' \in {"success", "error"}
  /\ UNCHANGED hldState
  /\ UNCHANGED clientVars
  /\ UNCHANGED relayVars
  /\ UNCHANGED envVars

\* lines 493-497: the design-doc button is clicked and the draft is posted
generateHld ==
  /\ hldState # "generating"
  /\ edits < MaxEdits
  /\ edits' = edits + 1
  /\ hldState' = "generating"
  /\ UNCHANGED jiraState
  /\ UNCHANGED clientVars
  /\ UNCHANGED relayVars
  /\ UNCHANGED <<replies, submitBound, probe, cuts>>

\* lines 508-522: the request to /api/hld succeeds or fails
generateHldSettles ==
  /\ hldState = "generating"
  /\ hldState' \in {"success", "error"}
  /\ UNCHANGED jiraState
  /\ UNCHANGED clientVars
  /\ UNCHANGED relayVars
  /\ UNCHANGED envVars

\* the handler before it is entered
RelayFresh ==
  /\ rpc = "start"
  /\ frames = <<>>
  /\ endCalls = 0
  /\ streamClosed = FALSE
  /\ fetched = FALSE
  /\ upRecords = <<>>
  /\ upstream = <<>>
  /\ buffer = <<>>
  /\ pending = <<>>
  /\ text = <<>>
  /\ words = <<>>
  /\ index = 0
  /\ interval = FALSE
  /\ timeout = FALSE
  /\ clientClosed = FALSE
  /\ rejected = FALSE
  /\ outcome = "none"
  /\ closedAfterDone = FALSE
  /\ closedAt = "open"

ClientInit ==
  /\ \E v \in Variants : PageInit(v)
  /\ replies = ReplyTexts
  /\ submitBound = MaxSubmits
  /\ edits = 0
  /\ cuts = {}
  /\ probe = NoProbe
  /\ body = [workItemType |-> Str("story"),
             messages |-> [t |-> "array", v |-> <<GoodMsg>>]]
  /\ apiKey = FALSE
  /\ RelayFresh

ClientNext ==
  \/ Submit
  \/ FetchOk
  \/ FetchFail
  \/ Read
  \/ ReadFail
  \/ ReadDone
  \/ Render
  \/ handleTypeChange

ClientSpec == ClientInit /\ [][ClientNext]_vars

\* the replies of a session in which the user also edits the draft
DraftReplies ==
  { <<"a">>,
    FullTemplate("Acceptance Criteria:") }

DraftInit ==
  /\ \E v \in Variants : PageInit(v)
  /\ replies = DraftReplies
  /\ submitBound = MaxDraftSubmits
  /\ edits = 0
  /\ cuts = {}
  /\ probe = NoProbe
  /\ body = [workItemType |-> Str("story"),
             messages |-> [t |-> "array", v |-> <<GoodMsg>>]]
  /\ apiKey = FALSE
  /\ RelayFresh

DraftNext ==
  \/ ClientNext
  \/ editTitle
  \/ editDescription
  \/ editAcceptance
  \/ importFromFigma
  \/ createJiraIssue
  \/ createJiraIssueSettles
  \/ generateHld
  \/ generateHldSettles

DraftSpec == DraftInit /\ [][DraftNext]_vars

\* ------------------------------------------- the extractor on its own
\* the final texts the extractor is tried on: nothing or a title and a
\* description, then a list marker, then what follows it
ProbeSymbols == {"1.", "2.", "a", " ", "\n"}

ProbeRemainders == UNION {[1..n -> ProbeSymbols] : n \in 0..MaxProbeLen}

ProbeHeads ==
  { <<>>,
    <<"Title:", " ", "a", "\n", "Description:", " ", "b", "\n">> }

ProbeTexts ==
  {h \o <<m>> \o r : h \in ProbeHeads, m \in CriteriaMarkers \cup StepsMarkers,
                     r \in ProbeRemainders}

ProbeTypes == {"story", "issue", "bug"}

ExtractInit ==
  /\ \E c \in ProbeTexts, t \in ProbeTypes, v \in Variants :
       probe = [NoProbe EXCEPT !.content = c, !.type = t, !.v = v]
  /\ PageInit("page")
  /\ replies = {}
  /\ submitBound = 0
  /\ edits = 0
  /\ cuts = {}
  /\ body = [workItemType |-> Str("story"),
             messages |-> [t |-> "array", v |-> <<GoodMsg>>]]
  /\ apiKey = FALSE
  /\ RelayFresh

\* parseStructuredResponse(content, type) is called
Extract ==
  /\ ~probe.applied
  /\ probe' = [probe EXCEPT
                 !.applied = TRUE,
                 !.result = parseStructuredResponse(probe.v, probe.content,
                                                    probe.type),
                 !.list = ExtractList(probe.content, probe.type)]
  /\ UNCHANGED <<replies, submitBound, edits, cuts>>
  /\ UNCHANGED handoffVars
  /\ UNCHANGED clientVars
  /\ UNCHANGED relayVars

ExtractNext == Extract

ExtractSpec == ExtractInit /\ [][ExtractNext]_vars

\* ------------------------------------------- the template functions alone
\* every text of at most MaxTemplateLen symbols, handed to the extractor and
\* to the split of the reply into bubble and template
TemplateSymbols ==
  {"Title:", "title:", "Description:", "Acceptance Criteria:", "Steps:",
   "---", "**", "\n", " ", "a"}

TemplateTexts == UNION {[1..n -> TemplateSymbols] : n \in 0..MaxTemplateLen}

TemplateInit ==
  /\ \E c \in TemplateTexts, v \in Variants :
       probe = [NoProbe EXCEPT !.content = c, !.v = v]
  /\ PageInit("page")
  /\ replies = {}
  /\ submitBound = 0
  /\ edits = 0
  /\ cuts = {}
  /\ body = [workItemType |-> Str("story"),
             messages |-> [t |-> "array", v |-> <<GoodMsg>>]]
  /\ apiKey = FALSE
  /\ RelayFresh

\* part_002 lines 1556-1580: the text of the bubble is cut from the reply
SplitReply ==
  /\ ~probe.applied
  /\ probe.v = "buffered"
  /\ probe' = [probe EXCEPT !.applied = TRUE,
                            !.split = TRUE,
                            !.bubble = chatResponse(probe.content)]
  /\ UNCHANGED <<replies, submitBound, edits, cuts>>
  /\ UNCHANGED handoffVars
  /\ UNCHANGED clientVars
  /\ UNCHANGED relayVars

TemplateNext == Extract \/ SplitReply

TemplateSpec == TemplateInit /\ [][TemplateNext]_vars

RelayInit ==
  /\ body \in Payloads
  /\ apiKey \in BOOLEAN
  /\ RelayFresh
  /\ ClientIdle

RelayNext ==
  \/ ValidationFail
  \/ ValidationPass
  \/ OpenNoKey
  \/ OpenUnavailable
  \/ OpenThrows
  \/ OpenOk
  \/ PumpRead
  \/ PumpEof
  \/ PumpReadError
  \/ IntervalTick
  \/ TimeoutEnd
  \/ ClientClose

RelaySpec == RelayInit /\ [][RelayNext]_vars

RelayFairSpec ==
  /\ RelaySpec
  /\ WF_vars(ValidationFail) /\ WF_vars(ValidationPass)
  /\ WF_vars(OpenNoKey) /\ WF_vars(OpenUnavailable \/ OpenThrows \/ OpenOk)
  /\ WF_vars(IntervalTick) /\ WF_vars(TimeoutEnd)
  /\ WF_vars(PumpRead \/ PumpEof \/ PumpReadError)

\* ------------------------------------------------------ relay properties
IsDone(f) == f.type = "done"
IsDelta(f) == f.type = "delta"
IsError(f) == f.type = "error"

\* ------------------------------------------------- the upstream path alone
\* A valid request with a key configured and an upstream that answers: the
\* steps of pump.  reader.read() settles sooner or later: it delivers a
\* chunk, reports the end or rejects.
UpstreamInit ==
  /\ body = [workItemType |-> Str("story"),
             messages |-> [t |-> "array", v |-> <<GoodMsg>>]]
  /\ apiKey = TRUE
  /\ RelayFresh
  /\ ClientIdle

UpstreamNext ==
  \/ ValidationPass
  \/ OpenOk
  \/ PumpRead
  \/ PumpEof
  \/ PumpReadError
  \/ ClientClose

UpstreamFairSpec ==
  /\ UpstreamInit
  /\ [][UpstreamNext]_vars
  /\ WF_vars(ValidationPass)
  /\ WF_vars(OpenOk)
  /\ WF_vars(PumpRead \/ PumpEof \/ PumpReadError)

\* ------------------------------------------- the page behind the relay
\* One request from the page to the relay with a key configured: what the
\* page reads is what the relay wrote.
WireInit ==
  /\ \E v \in Variants : PageInit(v)
  /\ replies = {}
  /\ submitBound = MaxWireSubmits
  /\ edits = 0
  /\ cuts = {}
  /\ probe = NoProbe
  /\ body = [workItemType |-> Str("story"),
             messages |-> [t |-> "array", v |-> <<GoodMsg>>]]
  /\ apiKey = TRUE
  /\ RelayFresh

\* the delta payloads of the frames, put together
RECURSIVE FrameText(_)
FrameText(fs) ==
  IF fs = <<>> THEN <<>>
  ELSE (IF IsDelta(Head(fs)) THEN Head(fs).delta ELSE <<>>)
       \o FrameText(Tail(fs))

\* the relay serves the request the page has sent
WireRelay ==
  /\ stream.phase = "fetching"
  /\ \/ ValidationPass
     \/ OpenOk
     \/ PumpRead
     \/ PumpEof
     \/ PumpReadError

\* page.tsx lines 249-260: fetch("/api/chat/stream") resolves with the
\* response of the relay; the bytes of its frames wait in the connection
FetchRelayed ==
  /\ stream.phase = "fetching"
  /\ rpc = "finished"
  /\ stream' = [stream EXCEPT !.phase = "reading",
                              !.emitted = FrameText(frames),
                              !.body = BodyBytes(frames)]
  /\ UNCHANGED <<variant, messages, messagesRef, workItemType, workItem,
                 isWorkItemReady, isReplying, nextId, completion, typeChanges,
                 sharesCatalog>>
  /\ UNCHANGED relayVars
  /\ UNCHANGED envVars
  /\ UNCHANGED handoffVars

WireNext ==
  \/ Submit
  \/ WireRelay
  \/ FetchRelayed
  \/ Read
  \/ ReadFail
  \/ ReadDone
  \/ Render

WireSpec == WireInit /\ [][WireNext]_vars

CountFrames(fs, P(_)) == Cardinality({i \in 1..Len(fs) : P(fs[i])})

HasSentinel(recs) == \E i \in 1..Len(recs) : recs[i] = "DONE"

\* the frames the records call for: a delta for every record with a
\* non-empty content that comes before the first sentinel, then done
RECURSIVE ExpectedFrames(_)
ExpectedFrames(recs) ==
  IF recs = <<>> \/ Head(recs) = "DONE" THEN <<DoneFrame>>
  ELSE (IF RecordContent(Head(recs)) # <<>>
          THEN <<DeltaFrame(RecordContent(Head(recs)))>> ELSE <<>>)
       \o ExpectedFrames(Tail(recs))

\* C1: on the upstream path, when the body holds content records followed
\* by the [DONE] sentinel and every read succeeds, the frames written are
\* one delta per non-empty content record, in upstream order, then one
\* done, whatever the chunking; nothing is written after that.
C1_FrameOrder ==
  (rpc = "finished" /\ outcome = "ok" /\ ~rejected /\ HasSentinel(upRecords))
    => frames = ExpectedFrames(upRecords)

C1_Witness ==
  /\ rpc = "finished" /\ outcome = "ok" /\ ~rejected
  /\ upRecords = <<"a", "eb", "DONE">>
  /\ frames = <<DeltaFrame(<<"a">>), DeltaFrame(<<"E", "b">>), DoneFrame>>

\* C2: at most one done frame is ever written, nothing is written after
\* it, and a handler that has run to its end (validation failure, [DONE],
\* end of stream, fallback) has written exactly one.
C2_OneTerminal ==
  /\ CountFrames(frames, IsDone) <= 1
  /\ (CountFrames(frames, IsDone) = 1 => frames[Len(frames)] = DoneFrame)
  /\ (rpc = "finished" => CountFrames(frames, IsDone) = 1)

C2_Witness ==
  /\ rpc = "finished" /\ outcome = "ok" /\ streamClosed
  /\ upRecords = <<"a", "DONE", "a">>
  /\ frames = <<DeltaFrame(<<"a">>), DoneFrame>>

\* C3: the response is ended at most once, exactly once when the handler
\* has run to its end, and once the client has disconnected after done
\* was written no write follows and end() is not called a second time.
C3_IdempotentClose ==
  /\ [](endCalls <= 1 /\ (rpc = "finished" => endCalls = 1))
  /\ [][closedAfterDone => (frames' = frames /\ endCalls' <= 1)]_vars

C3_Witness ==
  /\ closedAfterDone /\ rpc = "finished" /\ endCalls = 1
  /\ outcome = "nokey"

\* C4: once the close event has fired while the fallback is streaming or
\* while upstream records are relayed, no interval is armed and no further
\* frame is written.
C4_StopsOnClose ==
  /\ [](closedAt \in {"pump", "fallback"} => ~interval)
  /\ [][(closedAt \in {"pump", "fallback"}) => (frames' = frames)]_vars

PayloadInvalid(b) ==
  \/ b.workItemType.t # "string"
  \/ b.workItemType.v \notin WorkItemTypes
  \/ b.messages.t # "array"
  \/ \E i \in 1..Len(b.messages.v) :
       \/ b.messages.v[i].role.v \notin Roles
       \/ b.messages.v[i].content.t # "string"
       \/ b.messages.v[i].timestamp.t # "string"

\* C5: for a payload that does not validate, the handler writes the error
\* frame, then done, no delta, ends the response, and neither calls the
\* upstream nor arms the fallback timer.
C5_ValidationFailure ==
  (PayloadInvalid(body) /\ rpc # "start") =>
    /\ rpc = "finished"
    /\ frames = <<ErrorFrame, DoneFrame>>
    /\ endCalls = 1
    /\ ~fetched /\ outcome = "none"
    /\ ~interval /\ ~timeout /\ text = <<>>

C5_Witness ==
  /\ rpc = "finished"
  /\ body.workItemType = Str("story")
  /\ body.messages = [t |-> "array", v |-> <<GoodMsg, BadRoleMsg>>]
  /\ frames = <<ErrorFrame, DoneFrame>>

Unavailable == {"nokey", "non2xx", "nobody", "refused"}

\* C6: for a valid payload, whenever the upstream call cannot be
\* established the relay is on the canned fallback and has written no
\* error frame; an error frame only follows a validation failure.
C6_UnavailableFallsBack ==
  /\ (outcome \in Unavailable =>
        /\ rpc \in {"fallback", "finished"}
        /\ text # <<>>
        /\ CountFrames(frames, IsError) = 0)
  /\ (CountFrames(frames, IsError) > 0 => PayloadInvalid(body))

\* the frames of the whole fallback for a canned text
FallbackFrames(t) ==
  LET ws == Split(t, " ")
  IN  [i \in 1..(Len(ws) + 1) |->
         IF i = Len(ws) + 1 THEN DoneFrame
         ELSE DeltaFrame((IF i = 1 THEN <<>> ELSE <<" ">>) \o ws[i])]

\* C7: with the upstream unavailable and the client connected, a handler
\* that has come to rest has written one delta per word of the canned
\* text, the first bare and the others led by one space, then done, and
\* has ended the response.
C7_FallbackTerminates ==
  (outcome \in Unavailable /\ ~clientClosed /\ ~interval /\ ~timeout)
    => /\ rpc = "finished"
       /\ text # <<>>
       /\ frames = FallbackFrames(text)
       /\ endCalls = 1

\* ------------------------------------------------------- page properties
HasMarker(content, markers) ==
  \E i \in 1..Len(content) : content[i] \in markers

\* the list marker the extractor looks for under this type (spec 4.3, step 3)
ListMarkers(type) ==
  IF type = "story" THEN CriteriaMarkers
  ELSE IF type = "issue" THEN StepsMarkers
  ELSE {}

\* the fields whose marker occurs in the text with something after it
PresentFields(content, type) ==
  LET Has(markers) ==
        \E i \in 1..(Len(content) - 1) : content[i] \in markers
  IN  {f \in {"title", "description", "acceptance"} :
         \/ f = "title" /\ Has(TitleMarkers)
         \/ f = "description" /\ Has(DescriptionMarkers)
         \/ f = "acceptance" /\ Has(ListMarkers(type))}

OnlyTitle(content) ==
  /\ HasMarker(content, TitleMarkers)
  /\ ~HasMarker(content, DescriptionMarkers \cup CriteriaMarkers \cup StepsMarkers)

\* Title:, then Description:, then Acceptance Criteria:, then a numbered line
FullCriteriaTemplate(content) ==
  \E i, j, k, l \in 1..Len(content) :
    /\ i < j /\ j < k /\ k < l
    /\ content[i] \in TitleMarkers
    /\ content[j] \in DescriptionMarkers
    /\ content[k] \in CriteriaMarkers
    /\ content[l] \in Numbers

\* a step in which a finally block of sendMessage runs
Completes == completion'.n = completion.n + 1

\* C8: Partial extraction independence.  Whenever a completion hands a text
\* to the extractor, the update it returns has exactly the fields whose
\* marker is present in the text (for a text whose only marker is Title:,
\* the title and nothing else), and after the merge the draft holds the
\* returned value in each of those fields and its previous value in every
\* other field.
C8_PartialExtraction ==
  [][(Completes /\ completion'.hadText) =>
       LET p == completion'.parsed
           present == PresentFields(completion'.seen, completion'.type)
       IN  /\ DOMAIN p = present
           /\ \A f \in {"title", "description", "acceptance"} :
                workItem'[f] = IF f \in present THEN p[f] ELSE workItem[f]]_vars

\* C9: Completeness gate.  When a stream completes without failure under
\* type story, a final message with Title:, Description: and Acceptance
\* Criteria: followed by a numbered line leaves the readiness flag true; a
\* final message whose only marker is Title: does not set the flag and the
\* draft's title becomes the text after the marker.
C9_CompletenessGate ==
  [][(Completes /\ ~completion'.failed /\ completion'.type = "story") =>
       LET c == completion'.content
       IN  /\ FullCriteriaTemplate(c) => isWorkItemReady'
           /\ OnlyTitle(c) =>
                /\ ~completion'.ready
                /\ isWorkItemReady' = isWorkItemReady
                /\ workItem'.title = ExtractTitle(c)]_vars

\* C10: Readiness implies a complete recognized template.  Whenever a
\* completion has set the readiness flag, the update merged from that same
\* message had a title, a description and a list of at least one item, and
\* the message had a numbered line; this for every work-item type.
C10_ReadyImpliesComplete ==
  completion.ready =>
    /\ {"title", "description", "acceptance"} \subseteq DOMAIN completion.parsed
    /\ Len(completion.parsed.acceptance) >= 1
    /\ HasMarker(completion.seen, Numbers)

\* ----------------------------------------------- properties of the draft
\* a step in which a type button is clicked
TypeSwitches == typeChanges' = typeChanges + 1

\* C11: Type-switch reset.  Whatever edits and merges came before, a click
\* on the button of type t leaves the draft's title, description, list and
\* labels equal to the catalog defaults of t and the readiness flag false,
\* and the draft's list is a copy, not the catalog's own array, so that no
\* later edit can reach the catalog.
C11_TypeSwitchReset ==
  [][TypeSwitches =>
       /\ workItem' = workItemTemplates(workItemType')
       /\ ~isWorkItemReady'
       /\ ~sharesCatalog']_vars

\* a switch away from story made after an edit and after a merged reply
C11_Witness ==
  /\ typeChanges = 1
  /\ workItemType # "story"
  /\ edits > 0
  /\ ~IsNull(completion.parsed)
  /\ workItem = workItemTemplates(workItemType)
  /\ ~isWorkItemReady

\* C12: mergeExtraction.  The merge of a completion applies exactly the
\* fields of the update the extractor returned: each of them holds the
\* extracted value afterwards, every other field of the draft, the labels
\* included, keeps its value, and a list in the update replaces the draft's
\* list (the list afterwards is the extracted list, not the previous list
\* followed by it).
C12_MergeExtraction ==
  [][(Completes /\ ~IsNull(completion'.parsed)) =>
       LET partial == completion'.parsed
       IN  /\ DOMAIN workItem' = DOMAIN workItem
           /\ \A f \in DOMAIN workItem :
                workItem'[f] = IF f \in DOMAIN partial THEN partial[f]
                               ELSE workItem[f]
           /\ "acceptance" \in DOMAIN partial =>
                workItem'.acceptance = partial.acceptance]_vars

\* a second reply with a title only, merged into a draft whose list an
\* earlier reply had replaced: the title is new, the list is still that one
C12_Witness ==
  /\ completion.n = 2
  /\ DOMAIN completion.parsed = {"title"}
  /\ workItem.title = completion.parsed.title
  /\ workItem.title # completion.before.title
  /\ Len(workItem.acceptance) = 1
  /\ workItem.acceptance = completion.before.acceptance
  /\ workItem.labels = completion.before.labels

\* a step of one of the handlers of the draft panel's fields
EditsField == editTitle \/ editDescription \/ editAcceptance

\* C13: editField.  An edit of the title, of the description or of one list
\* element changes that field, or that element of the list, and nothing else
\* of the draft; the readiness flag, the selected type and the chat messages
\* stay as they are.
C13_EditField ==
  [][EditsField =>
       /\ isWorkItemReady' = isWorkItemReady
       /\ workItemType' = workItemType
       /\ messages' = messages
       /\ \/ workItem' = [workItem EXCEPT !.title = workItem'.title]
          \/ workItem' = [workItem EXCEPT !.description = workItem'.description]
          \/ /\ Len(workItem'.acceptance) = Len(workItem.acceptance)
             /\ \E at \in 1..Len(workItem.acceptance) :
                  workItem' = [workItem EXCEPT
                                 !.acceptance[at] = workItem'.acceptance[at]]]_vars

\* C14: Stream completion on the client.  Every completion, of a stream that
\* succeeded or of one that failed, sets the replying indicator false and
\* hands the extractor the text accumulated for that request, which is the
\* concatenation of the deltas received for it: not an older snapshot of
\* the message and not another message.
C14_StreamCompletion ==
  [][Completes =>
       /\ ~isReplying'
       /\ completion'.hadText
       /\ completion'.seen = completion'.content]_vars

\* a step in which the catch block of sendMessage runs
Fails == Completes /\ completion'.failed

\* C15: Client stream failure.  When the fetch rejects or a read of the body
\* throws, before any delta or after some, the request's assistant message
\* shows the apology text afterwards (one message, neither blank nor the
\* partial text), the page is idle again with the replying indicator off,
\* and no new request is issued.
C15_StreamFailure ==
  [][Fails =>
       LET id == stream.assistantId
       IN  /\ Cardinality({i \in 1..Len(messages') : messages'[i].id = id}) = 1
           /\ ContentOf(messages', id) = Apology
           /\ ~isReplying'
           /\ stream' = NoStream
           /\ nextId' = nextId
           /\ Len(messages') <= Len(messages) + 1]_vars

\* a read that threw after a delta had been received
C15_Witness ==
  /\ completion.failed
  /\ completion.content # <<>>
  /\ messages[Len(messages)].content = Apology
  /\ stream = NoStream
  /\ ~isReplying

\* ------------------------------------------- properties of the extractor
\* what follows the first list marker of the type
Remainder(content, type) ==
  LET I == {i \in 1..Len(content) : content[i] \in ListMarkers(type)}
  IN  DropN(content, CHOOSE i \in I : \A j \in I : i <= j)

\* the lines of a text, each trimmed
TrimmedLines(t) ==
  LET lines == Split(t, "\n")
  IN  [i \in 1..Len(lines) |-> Trim(lines[i])]

\* a line that starts with a number / with a number and a text after it
StartsNumbered(line) == line # <<>> /\ Head(line) \in Numbers
NumberedWithText(line) == StartsNumbered(line) /\ Len(line) > 1

TrimEach(list) == [i \in 1..Len(list) |-> Trim(list[i])]

\* C16: List parsing.  When the list marker of the type is in the text: if
\* what follows it has numbered lines, the extracted list is those numbered
\* lines, in the order of the text, one element for each line; if it has
\* none, the list has one element, the whole of what follows the marker,
\* trimmed.  (Elements are compared without their surrounding whitespace; a
\* line made of a number alone may or may not count as a numbered line; a
\* marker with nothing after it may give no list.)
C16_ListParsing ==
  (probe.applied /\ HasMarker(probe.content, ListMarkers(probe.type))) =>
    LET rem == Remainder(probe.content, probe.type)
        lines == TrimmedLines(rem)
        withText == SelectSeq(lines, NumberedWithText)
        loose == SelectSeq(lines, StartsNumbered)
        list == TrimEach(probe.list)
    IN  IF loose = <<>>
        THEN \/ list = <<Trim(rem)>>
             \/ Trim(rem) = <<>> /\ list = <<>>
        ELSE \/ list = loose
             \/ withText # <<>> /\ list = withText
             \/ withText = <<>> /\ list = <<Trim(rem)>>

\* C17: the draft's list.  In every state of the draft, after any type
\* switches, field edits, merges of extracted updates and Figma import,
\* acceptance is a list of texts, which may be empty; it is never null or
\* undefined.
C17_AcceptanceIsList ==
  /\ workItem.acceptance \in Seq(Seq(STRING))
  /\ workItem.acceptance # UndefinedList

\* the empty list a Figma import leaves, after a type switch and a merge
C17_Witness ==
  /\ workItem.acceptance = <<>>
  /\ workItem.title = FigmaTitle
  /\ typeChanges = 1
  /\ ~IsNull(completion.parsed)
  /\ edits = MaxEdits

\* the markers the extractor knows
AllMarkers ==
  TitleMarkers \cup DescriptionMarkers \cup CriteriaMarkers \cup StepsMarkers

\* C18: Extraction miss.  When the text a completion hands to the extractor
\* has none of the markers, the extractor returns no update and the
\* completion runs to its end: the draft and the readiness flag are what
\* they were and the page is idle again.
C18_ExtractionMiss ==
  [][(Completes /\ ~HasMarker(completion'.seen, AllMarkers)) =>
       /\ IsNull(completion'.parsed)
       /\ workItem' = workItem
       /\ isWorkItemReady' = isWorkItemReady
       /\ ~isReplying'
       /\ stream' = NoStream]_vars

\* a reply without markers, received whole after a reply that had filled
\* the draft and set the flag: both are as that reply left them
C18_Witness ==
  /\ completion.n = 2
  /\ ~completion.failed
  /\ completion.content = <<"a">>
  /\ completion.seen = <<"a">>
  /\ IsNull(completion.parsed)
  /\ isWorkItemReady
  /\ workItem = completion.before
  /\ workItem.title = <<"a">>

\* ----------------------------------------- more properties of the relay
\* a record that is not valid JSON or carries no content comes before any
\* sentinel
MalformedBeforeEnd(recs) ==
  \E i \in 1..Len(recs) :
    /\ recs[i] \in {"bad", "empty"}
    /\ \A j \in 1..i : recs[j] # "DONE"

\* the records that reached the relay as complete lines: all of them, or
\* all but the last when the body ended inside it
CompleteRecords(recs) ==
  IF ~HasSentinel(recs) /\ buffer # <<>> THEN TakeN(recs, Len(recs) - 1)
  ELSE recs

\* C19: Malformed upstream record.  A record whose payload is not valid
\* JSON, or has no content, gives no frame and does not end the relay: when
\* the handler has finished, the frames are the deltas of the valid content
\* records around it, those that follow it included, in upstream order, and
\* then done, with or without a sentinel in the body.
C19_MalformedRecord ==
  (rpc = "finished" /\ outcome = "ok" /\ ~rejected
     /\ MalformedBeforeEnd(upRecords))
    => frames = ExpectedFrames(CompleteRecords(upRecords))

\* a record cut short, then two valid records and the end of the body
C19_Witness ==
  /\ rpc = "finished" /\ outcome = "ok" /\ ~rejected
  /\ upRecords = <<"bad", "a", "eb">>
  /\ buffer = <<>>
  /\ frames = <<DeltaFrame(<<"a">>), DeltaFrame(<<"E", "b">>), DoneFrame>>

\* ------------------------------------------------ relay to page, in order
\* C20: Delta order end to end.  When a stream completes without failure,
\* the text accumulated for the request is the concatenation of the deltas
\* the relay emitted for it, in the order of emission, none lost, doubled
\* or out of place, however the body was cut into delta frames and into
\* read chunks; in page.tsx that text is the content of the request's
\* assistant message.
C20_DeltaOrder ==
  [][(Completes /\ ~completion'.failed) =>
       /\ completion'.content = completion'.emitted
       /\ variant = "page" =>
            ContentOf(messages', stream.assistantId) = completion'.emitted]_vars

\* a reply with a multi-byte character and a line break, received whole
C20_Witness ==
  /\ completion.n > 0
  /\ ~completion.failed
  /\ completion.emitted = <<"E", "\n", "Title:", " ", "b">>
  /\ completion.content = <<"E", "\n", "Title:", " ", "b">>

\* C21: No error escapes the relay boundary.  No failure inside the handler
\* (the upstream fetch throwing, a read of the upstream body rejecting)
\* leaves it as a rejected promise, and a handler that has stopped, for
\* whatever reason, has written frames that end with done.
C21_NoErrorEscapes ==
  /\ ~rejected
  /\ rpc \in {"finished", "failed"} =>
       (frames # <<>> /\ frames[Len(frames)] = DoneFrame)

\* the form could take one more message
CanSubmit == nextId < Len(initialMessages(variant)) + 1 + 2 * submitBound

\* a step in which sendMessage starts a stream
StartsStream == nextId' # nextId

\* C22 (as stated): with the replying indicator true, submitting the chat
\* form starts a second stream beside the one in flight.
C22_SubmitWhileReplying == (isReplying /\ CanSubmit) => ENABLED Submit

\* C22 (amended): with the replying indicator true no stream is started:
\* the form's onSubmit calls sendMessage only when isReplying is false, so
\* the indicator is true exactly while the one stream is in flight.
C22_NoSecondStream ==
  /\ [][isReplying => ~StartsStream]_vars
  /\ [](isReplying <=> stream.phase # "idle")

\* a stream is being read, the indicator is true, and the form would take
\* another message
C22_Witness == isReplying /\ stream.phase = "reading" /\ CanSubmit

\* the history keeps every message it held, in place, and changes at most
\* the content of the bubble of the stream in flight
KeepsHistory ==
  /\ Len(messages') >= Len(messages)
  /\ \A i \in 1..Len(messages) :
       /\ messages'[i].id = messages[i].id
       /\ messages'[i].role = messages[i].role
       /\ messages'[i].content # messages[i].content =>
            /\ isReplying
            /\ messages[i].role = "assistant"
            /\ messages[i].id = stream.assistantId
            /\ i = Len(messages)

\* page.tsx: a submit appends the user's message and then an empty
\* assistant placeholder, with nothing of the response read yet; no other
\* step adds to the history
AppendsPair ==
  IF StartsStream
  THEN /\ Len(messages') = Len(messages) + 2
       /\ messages'[Len(messages) + 1].role = "user"
       /\ messages'[Len(messages) + 1].content # <<>>
       /\ messages'[Len(messages) + 2] =
            [id |-> stream'.assistantId, role |-> "assistant",
             content |-> <<>>]
       /\ stream'.phase = "fetching"
       /\ stream'.body = <<>>
  ELSE Len(messages') = Len(messages)

\* C23: Chat history is append-only.  Every submit appends the user message
\* and then an empty assistant placeholder before any byte of the response
\* is processed; no message is removed or reordered; the only later change
\* is to the content of the placeholder of that same submit.
C23_AppendOnly ==
  [][KeepsHistory /\ (variant = "page" => AppendsPair)]_vars

\* the page after two submits, the second placeholder being filled while
\* the first one keeps its text
C23_Witness ==
  /\ variant = "page"
  /\ isReplying
  /\ Len(messages) = Len(initialMessages("page")) + 4
  /\ messages[Len(messages) - 2].content # <<>>
  /\ messages[Len(messages)].content # <<>>

\* the four markers in any spelling of their letters' case
MarkersAnyCase == TemplateMarkers \cup {"title:"}

\* the marker at j starts a line: a newline and nothing but blanks before it
FreshLine(c, j) ==
  \E p \in 1..(j - 1) :
    /\ c[p] = "\n"
    /\ \A m \in (p + 1)..(j - 1) : c[m] \in WS

\* the marker at j follows a dash divider, with blanks and at most one pair
\* of stars between them
AfterDivider(c, j) ==
  \E d \in 1..(j - 1) : \E q \in d..(j - 1) :
    /\ c[d] = "---"
    /\ \A m \in (d + 1)..q : c[m] \in WS
    /\ q + 1 = j \/ (q + 2 = j /\ c[q + 1] = "**")

RecognizedMarkers(c, markers) ==
  {j \in 1..Len(c) : c[j] \in markers /\ (FreshLine(c, j) \/ AfterDivider(c, j))}

\* the bubble is the text before the first recognized marker, without the
\* divider or the line break that leads to the marker; the whole text when
\* no marker is recognized
SplitsAt(c, bubble, markers) ==
  LET J == RecognizedMarkers(c, markers) IN
  IF J = {} THEN bubble = c
  ELSE LET j == CHOOSE x \in J : \A y \in J : x <= y
       IN  \E k \in 0..(j - 1) :
             /\ bubble = Trim(TakeN(c, k))
             /\ \A m \in (k + 1)..(j - 1) : c[m] \in WS \cup {"---", "**"}

\* C24: Preamble split (buffered variant).  The bubble shows exactly the
\* text that precedes the first recognized marker (Title:, Description:,
\* Acceptance Criteria:, Steps:), a marker being recognized whatever the
\* case of its letters and whether it follows a dash divider or starts a
\* fresh line; the text from the marker on is not shown; without a marker
\* the whole text is shown.
C24_PreambleSplit ==
  probe.split =>
    SplitsAt(probe.content, probe.bubble, MarkersAnyCase)

\* the number of records of this kind
CountKind(recs, k) == Cardinality({i \in 1..Len(recs) : recs[i] = k})

\* the text holds no replacement character
NoReplacement(t) == \A i \in 1..Len(t) : t[i] # "?"

\* the accented characters of a text
Accented(t) == Cardinality({i \in 1..Len(t) : t[i] = "E"})

\* C25: Multi-byte boundary decode.  A character of two bytes whose bytes
\* fall into two consecutive read chunks appears exactly once and correctly
\* in the decoded text, in the relay's decoder of the upstream body and in
\* the page's decoder of the relay's frames: the relay's delta frames hold
\* the records' contents and no replacement character, one accented
\* character per forwarded record that has one, and the text the page has
\* put together at the end of a stream is the text of the frames.
C25_BoundaryDecode ==
  /\ [](/\ \A i \in 1..Len(frames) :
            IsDelta(frames[i]) => frames[i].delta \in {<<"a">>, <<"E", "b">>}
        /\ Accented(FrameText(frames)) <= CountKind(upRecords, "eb")
        /\ (rpc = "finished" /\ ~rejected /\ HasSentinel(upRecords)) =>
             frames = ExpectedFrames(upRecords))
  /\ [][(Completes /\ ~completion'.failed) =>
         /\ completion'.content = FrameText(frames)
         /\ NoReplacement(completion'.content)
         /\ variant = "page" =>
              ContentOf(messages', stream.assistantId) = FrameText(frames)]_vars

\* a record with the accented character has gone through both decoders,
\* each of which had a read end between the character's two bytes
C25_Witness ==
  /\ completion.n > 0 /\ ~completion.failed
  /\ cuts = {"relay", "page"}
  /\ upRecords = <<"eb", "DONE">>
  /\ completion.content = <<"E", "b">>

\* the trimmed text between the first of the markers and the next of the
\* stops after it, or the end of the text; nothing without the marker
FieldText(c, markers, stops) ==
  LET I == {i \in 1..Len(c) : c[i] \in markers} IN
  IF I = {} THEN <<>>
  ELSE LET i == CHOOSE x \in I : \A y \in I : x <= y
           J == {j \in (i + 1)..Len(c) : c[j] \in stops}
           e == IF J = {} THEN Len(c) + 1
                ELSE CHOOSE x \in J : \A y \in J : x <= y
       IN  Trim(SubSeq(c, i + 1, e - 1))

\* the field of an update, empty when the update has none
FieldOf(u, f) == IF f \in DOMAIN u THEN u[f] ELSE <<>>

HoldsNone(t, markers) == \A i \in 1..Len(t) : t[i] \notin markers

\* the extractor has been applied to the probe
Extracted == probe.applied /\ ~probe.split

TitleBounded(c, u) ==
  /\ FieldOf(u, "title") = FieldText(c, TitleMarkers, DescriptionMarkers)
  /\ HoldsNone(FieldOf(u, "title"), DescriptionMarkers)

DescriptionBounded(c, u) ==
  /\ FieldOf(u, "description") =
       FieldText(c, DescriptionMarkers, CriteriaMarkers \cup StepsMarkers)
  /\ HoldsNone(FieldOf(u, "description"), CriteriaMarkers \cup StepsMarkers)

\* C26: Field boundaries.  The extracted title is the trimmed text between
\* Title: and the next Description: (or the end of the text), the extracted
\* description the trimmed text between Description: and the next
\* Acceptance Criteria: or Steps: (or the end); neither holds the marker
\* that follows it or anything beyond.  page.tsx returns the fields only
\* when it has found all three.
C26_FieldBoundaries ==
  (Extracted /\ (probe.v = "buffered" \/ ~IsNull(probe.result))) =>
    /\ TitleBounded(probe.content, probe.result)
    /\ DescriptionBounded(probe.content, probe.result)

\* C27: Upstream end without sentinel.  When the upstream body reaches its
\* end or a read of it fails before any [DONE], the relay has still written
\* exactly one done frame, as the last frame, and has ended the response
\* exactly once; and every request whose upstream was opened, the upstream
\* closing sooner or later, has its response closed in the end.
C27_UpstreamEnd ==
  /\ []((rpc = "finished" /\ outcome = "ok") =>
          /\ CountFrames(frames, IsDone) = 1
          /\ frames[Len(frames)] = DoneFrame
          /\ endCalls = 1
          /\ streamClosed)
  /\ (rpc = "pump") ~> (rpc = "finished" /\ endCalls = 1 /\ streamClosed)

\* a read failed after the first of two records without sentinel: one
\* delta, one done, one end
C27_Witness ==
  /\ rpc = "finished" /\ outcome = "ok" /\ rejected
  /\ upRecords = <<"a", "a">>
  /\ frames = <<DeltaFrame(<<"a">>), DoneFrame>>
  /\ endCalls = 1

\* the stream in flight was submitted under another type than the one
\* selected now: the type was switched after the submit
SwitchedInFlight == isReplying /\ workItemType # stream.type

\* C28: A type switch is not undone by an in-flight stream.  When a stream
\* submitted under the previous type completes after the user has switched
\* to type t, the draft still holds t's defaults and readiness is still
\* false: the extraction of the old request is not merged.
C28_SwitchSurvives ==
  [][(Completes /\ SwitchedInFlight) =>
       /\ workItem' = workItemTemplates(workItemType)
       /\ ~isWorkItemReady']_vars

OnFallback == outcome \in {"nokey", "non2xx", "nobody"}

\* the reply texts the service can produce for a type
CannedTexts(type) ==
  {<<toUpperCase(type), " ">> \o JoinSpace(cannedResponses[r]) :
     r \in 1..Len(cannedResponses)}

IsPrefix(s, t) == Len(s) <= Len(t) /\ s = TakeN(t, Len(s))

\* C30: Fallback round trip.  On the canned fallback with the client
\* connected, the delta payloads written, put together in order, are the
\* canned reply text exactly: the bracketed upper-case type, one space and
\* the sentence, for every canned sentence and every type; while the
\* fallback streams they are a prefix of it.
C30_FallbackRoundTrip ==
  (OnFallback /\ ~clientClosed) =>
    /\ text \in CannedTexts(body.workItemType.v)
    /\ IsPrefix(FrameText(frames), text)
    /\ rpc = "finished" => FrameText(frames) = text

\* the whole of a canned reply for a bug has been written and the response
\* ended, the client still there
C30_Witness ==
  /\ rpc = "finished" /\ OnFallback /\ ~clientClosed
  /\ body.workItemType.v = "bug"
  /\ text = <<"[BUG]", " ">> \o JoinSpace(cannedResponses[2])
  /\ FrameText(frames) = text
  /\ Len(frames) = Len(cannedResponses[2]) + 2

====
